---- MODULE Spec2Model ----
(***************************************************************************)
(* gen-workflow: conversion of a recorded browser test execution into a    *)
(* parameterised workflow (src/main.py, src/src/converter.py,              *)
(* src/src/parser.py, src/src/llm/client.py).                              *)
(*                                                                         *)
(* Texts are sequences of one-character strings, so that scanning,         *)
(* lower-casing, underscore removal, keyword search and integer parsing    *)
(* are computed character by character as the Python code does.  Optional  *)
(* and dynamically typed values are tagged records (Null, Str, Int, Bool). *)
(***************************************************************************)
EXTENDS Integers, Sequences, FiniteSets, TLC

VARIABLES
    pc,                \* position of main(): "start", "load", "steps", "llm", "schema", "save", "done", "error"
    api_key,           \* whether OPENAI_API_KEY is available to LLMClient.__init__
    input_file,        \* the input file: [status, data]
    test_execution,    \* parser.test_execution: Null until load() succeeds
    step_idx,          \* idx of the step convert()'s loop handles next (1-based)
    placeholders,      \* _process_step's local: the scan of the last handled description
    categorized_steps, \* convert()'s accumulating list of templated steps
    attempt,           \* _call_api's loop variable
    api_calls,         \* number of chat.completions.create calls made so far
    summary_calls,     \* number of generate_workflow_summary calls made so far
    sleeps,            \* the time.sleep durations of _call_api, in order
    summary,           \* the summary string returned by the collaborator, Null before
    workflow,          \* the Workflow convert() returns, Null before
    output_file,       \* content of the output file, Null while untouched
    raised,            \* the exception that ended the run, "none" otherwise
    exit_code,         \* process exit status, -1 while running
    example_value,     \* _extract_input_schema's local: the example of the field in hand
    param_type         \* _extract_input_schema's local: the type inferred for it

vars == <<pc, api_key, input_file, test_execution, step_idx, placeholders,
          categorized_steps, attempt, api_calls, summary_calls, sleeps, summary,
          workflow, output_file, raised, exit_code, example_value, param_type>>

-----------------------------------------------------------------------------
(* Tagged values *)

Null == [k |-> "null"]
Str(s) == [k |-> "str", s |-> s]
Int_(n) == [k |-> "int", n |-> n]
Bool(b) == [k |-> "bool", b |-> b]
Float(x) == [k |-> "float", x |-> x]
Obj(f) == [k |-> "obj", f |-> f]      \* a pydantic object or a dict: field name -> value
List(l) == [k |-> "list", l |-> l]    \* a list

\* Python truthiness of an Optional[str] value: None and "" are falsy.
Truthy(v) == v.k = "str" /\ Len(v.s) > 0

-----------------------------------------------------------------------------
(* Character-level string functions *)

UpperCase == <<"A","B","C","D","E","F","G","H","I","J","K","L","M",
               "N","O","P","Q","R","S","T","U","V","W","X","Y","Z">>
LowerCase == <<"a","b","c","d","e","f","g","h","i","j","k","l","m",
               "n","o","p","q","r","s","t","u","v","w","x","y","z">>

LowerChar(c) ==
    IF \E i \in DOMAIN UpperCase : UpperCase[i] = c
    THEN LowerCase[CHOOSE i \in DOMAIN UpperCase : UpperCase[i] = c]
    ELSE c

\* str.lower()
StrLower(s) == [i \in 1..Len(s) |-> LowerChar(s[i])]

\* str.replace("_", "")
RemoveUnderscores(s) == SelectSeq(s, LAMBDA c : c # "_")

\* kw in s
Contains(s, kw) ==
    \E i \in 0..(Len(s) - Len(kw)) : SubSeq(s, i + 1, i + Len(kw)) = kw

\* any(keyword in s for keyword in kws)
ContainsAny(s, kws) == \E kw \in kws : Contains(s, kw)

\* index of the first occurrence of character c in s at or after position from, 0 if none
RECURSIVE FindChar(_, _, _)
FindChar(s, c, from) ==
    IF from > Len(s) THEN 0
    ELSE IF s[from] = c THEN from
    ELSE FindChar(s, c, from + 1)

-----------------------------------------------------------------------------
(* Placeholder scanner: re.findall(r'<([^>]+)>', text) *)

\* Leftmost, non-overlapping matches from position from on.  A match starts at
\* a "<" that is followed by at least one character other than ">" and then
\* a ">"; the group is everything between them.
RECURSIVE FindAll(_, _)
FindAll(text, from) ==
    LET lt == FindChar(text, "<", from) IN
    IF lt = 0 THEN <<>>
    ELSE LET gt == FindChar(text, ">", lt + 1) IN
         IF gt = 0 THEN <<>>
         ELSE IF gt = lt + 1 THEN FindAll(text, lt + 1)
         ELSE <<SubSeq(text, lt + 1, gt - 1)>> \o FindAll(text, gt + 1)

\* a scanner that keeps only the first occurrence of every name
ExtractDistinctPlaceholders(text) ==
    LET all  == IF Len(text) = 0 THEN <<>> ELSE FindAll(text, 1)
        keep == {i \in DOMAIN all : \A j \in 1..(i - 1) : all[j] # all[i]}
    IN  [n \in 1..Cardinality(keep) |->
            all[CHOOSE i \in keep : Cardinality({m \in keep : m <= i}) = n]]

ExtractPlaceholdersFromText(text) ==
    IF Len(text) = 0 THEN <<>> ELSE FindAll(text, 1)

-----------------------------------------------------------------------------
(* int(str): optional surrounding blanks, optional sign, decimal digits     *)
(* with single underscores between digits                                   *)

Digits == <<"0","1","2","3","4","5","6","7","8","9">>

IsDigit(c) == \E i \in DOMAIN Digits : Digits[i] = c

DigitValue(c) == (CHOOSE i \in DOMAIN Digits : Digits[i] = c) - 1

RECURSIVE StripLeft(_)
StripLeft(s) ==
    IF Len(s) > 0 /\ Head(s) = " " THEN StripLeft(Tail(s)) ELSE s

RECURSIVE StripRight(_)
StripRight(s) ==
    IF Len(s) > 0 /\ s[Len(s)] = " " THEN StripRight(SubSeq(s, 1, Len(s) - 1)) ELSE s

Strip(s) == StripRight(StripLeft(s))

HasSign(s) == Len(s) > 0 /\ Head(s) \in {"+", "-"}

Unsigned(s) == IF HasSign(s) THEN Tail(s) ELSE s

IsDigitString(d) ==
    /\ Len(d) > 0
    /\ IsDigit(d[1])
    /\ IsDigit(d[Len(d)])
    /\ \A i \in 1..Len(d) : IsDigit(d[i]) \/ d[i] = "_"
    /\ \A i \in 1..(Len(d) - 1) : ~(d[i] = "_" /\ d[i + 1] = "_")

\* TRUE iff int(s) returns, FALSE iff it raises ValueError
IsIntLiteral(s) == IsDigitString(Unsigned(Strip(s)))

RECURSIVE DigitsValue(_, _)
DigitsValue(d, acc) ==
    IF Len(d) = 0 THEN acc
    ELSE IF Head(d) = "_" THEN DigitsValue(Tail(d), acc)
    ELSE DigitsValue(Tail(d), 10 * acc + DigitValue(Head(d)))

\* the value of int(s) when it returns
IntValue(s) ==
    LET t == Strip(s)
        v == DigitsValue(Unsigned(t), 0)
    IN  IF HasSign(t) /\ Head(t) = "-" THEN 0 - v ELSE v

DefaultPriority == 999

\* int(sel.priority) if sel.priority else 999: raises ValueError when the
\* string is non-empty and no integer literal
SelectorPriorityRaises(sel) ==
    Len(sel.priority) > 0 /\ ~IsIntLiteral(sel.priority)

\* a priority that is never parsed
SelectorPriorityDefault(sel) == DefaultPriority

SelectorPriority(sel) ==
    IF Len(sel.priority) > 0 THEN IntValue(sel.priority) ELSE DefaultPriority

-----------------------------------------------------------------------------
(* Field names of the pydantic models, as texts *)

kUrl        == <<"u","r","l">>
kFinalUrl   == <<"f","i","n","a","l","_","u","r","l">>
kTitle      == <<"t","i","t","l","e">>
kStatusCode == <<"s","t","a","t","u","s","_","c","o","d","e">>
kOk         == <<"o","k">>
kClass      == <<"c","l","a","s","s">>
kHref       == <<"h","r","e","f">>
kTag        == <<"t","a","g">>

\* StepOutput's fields, StepAttributes' fields under their aliases
OutputFields == {kUrl, kFinalUrl, kTitle, kStatusCode, kOk}
AttributeFields == {kClass, kHref, kTag}

\* model_dump(exclude_none=True)
ModelDumpExcludeNone(obj) ==
    [f \in {g \in DOMAIN obj : obj[g] # Null} |-> obj[f]]

\* model_dump(by_alias=True): every field, None values included
ModelDumpByAlias(obj) == obj

\* a pop that leaves the dict as it is
DictKeep(d, key) == d

\* dict.pop(key, None)
DictPop(d, key) == [f \in (DOMAIN d) \ {key} |-> d[f]]

-----------------------------------------------------------------------------
(* Templating engine *)

PlaceholderStr(name) == <<"<">> \o name \o <<">">>

\* dict keys keep the order of their first insertion
RECURSIVE DictItems(_, _)
DictItems(names, acc) ==
    IF Len(names) = 0 THEN acc
    ELSE IF \E i \in DOMAIN acc : acc[i].name = Head(names)
         THEN DictItems(Tail(names), acc)
         ELSE DictItems(Tail(names),
                        Append(acc, [name |-> Head(names), str |-> PlaceholderStr(Head(names))]))

\* the items of the dict {name: "<name>"}, in insertion order
MapPlaceholdersToValues(step, placeholder_names) == DictItems(placeholder_names, <<>>)

\* a comparison that lower-cases the key only
KeyMatchesCaseSensitive(key, placeholder_name) ==
    LET key_lower == StrLower(key)
    IN  key_lower = placeholder_name \/ key_lower = RemoveUnderscores(placeholder_name)

KeyMatches(key, placeholder_name) ==
    LET key_lower == StrLower(key)
        placeholder_lower == StrLower(placeholder_name)
    IN  key_lower = placeholder_lower \/ key_lower = RemoveUnderscores(placeholder_lower)

\* where a "for ...: if test: ... break" loop stops: the index of the first
\* TRUE of the tests, 0 if none
FirstTrue(tests) ==
    IF \E i \in DOMAIN tests : tests[i]
    THEN CHOOSE i \in DOMAIN tests : tests[i] /\ \A j \in 1..(i - 1) : ~tests[j]
    ELSE 0

ReplaceValuesWithPlaceholders(data, placeholder_to_value) ==
    IF DOMAIN data = {} \/ Len(placeholder_to_value) = 0 THEN data
    ELSE [key \in DOMAIN data |->
            LET m == FirstTrue([i \in DOMAIN placeholder_to_value |->
                                   KeyMatches(key, placeholder_to_value[i].name)])
            IN  IF m # 0 THEN Str(placeholder_to_value[m].str) ELSE data[key]]

kwButton  == <<"b","u","t","t","o","n">>
kwText    == <<"t","e","x","t">>
kwElement == <<"e","l","e","m","e","n","t">>
kwLink    == <<"l","i","n","k">>
kwLabel   == <<"l","a","b","e","l">>

\* the keyword list without its last entry
KeywordsWithoutLabel == {kwButton, kwText, kwElement, kwLink}

ElementTextKeywords == {kwButton, kwText, kwElement, kwLink, kwLabel}
SelectorKeywords == {kwButton, kwText, kwElement, kwLink}

\* element_text is a non-empty text here
ReplaceElementTextWithPlaceholder(element_text, placeholder_to_value) ==
    LET m == FirstTrue([i \in DOMAIN placeholder_to_value |->
                           ContainsAny(StrLower(placeholder_to_value[i].name),
                                       ElementTextKeywords)])
    IN  IF m # 0 THEN placeholder_to_value[m].str ELSE element_text

IsAsciiLetter(c) ==
    \E i \in DOMAIN LowerCase : LowerCase[i] = c \/ UpperCase[i] = c

\* the escapes of a replacement template that stand for one character
ControlEscapes == ("n" :> "\n") @@ ("t" :> "\t") @@ ("r" :> "\r") @@ ("f" :> "\f")
                  @@ ("\\" :> "\\")

\* re's expansion of a replacement template for a pattern without groups:
\* [ok, s].  A backslash with n, t, r, f or a backslash is one character;
\* a backslash with a digit 1..9 names a group the pattern does not have
\* and one with any other ASCII letter is a bad escape, both raise re.error;
\* before any other character the backslash stays.  (The escapes \0, \a,
\* \b, \v and \g<0> are outside the texts of the runs.)
RECURSIVE ExpandTemplate(_)
ExpandTemplate(template) ==
    IF Len(template) = 0 THEN [ok |-> TRUE, s |-> <<>>]
    ELSE IF Head(template) # "\\"
    THEN LET rest == ExpandTemplate(Tail(template))
         IN  [ok |-> rest.ok, s |-> <<Head(template)>> \o rest.s]
    ELSE IF Len(template) = 1 THEN [ok |-> FALSE, s |-> <<>>]
    ELSE LET c    == template[2]
             rest == ExpandTemplate(SubSeq(template, 3, Len(template)))
         IN  IF c \in DOMAIN ControlEscapes
             THEN [ok |-> rest.ok, s |-> <<ControlEscapes[c]>> \o rest.s]
             ELSE IF IsDigit(c) \/ IsAsciiLetter(c)
             THEN [ok |-> FALSE, s |-> <<>>]
             ELSE [ok |-> rest.ok, s |-> <<"\\", c>> \o rest.s]

\* f'"{placeholder_str}"', the replacement template of re.sub
QuotedTemplate(placeholder_str) == <<"\"">> \o placeholder_str \o <<"\"">>

\* re.sub(r'"[^"]*"', f'"{repl}"', text, count=1), the template being valid
SubFirstQuoted(text, repl) ==
    LET q1 == FindChar(text, "\"", 1)
        q2 == IF q1 = 0 THEN 0 ELSE FindChar(text, "\"", q1 + 1)
    IN  IF q2 = 0 THEN text
        ELSE SubSeq(text, 1, q1 - 1) \o ExpandTemplate(QuotedTemplate(repl)).s
             \o SubSeq(text, q2 + 1, Len(text))

\* the call of re.sub raises re.error: it is made, and the template is invalid
ReplaceTextRaises(text, placeholder_to_value) ==
    /\ Len(text) > 0
    /\ Len(placeholder_to_value) > 0
    /\ LET m == FirstTrue([i \in DOMAIN placeholder_to_value |->
                              ContainsAny(StrLower(placeholder_to_value[i].name),
                                          SelectorKeywords)])
       IN  /\ m # 0
           /\ FindChar(text, "\"", 1) # 0
           /\ ~ExpandTemplate(QuotedTemplate(placeholder_to_value[m].str)).ok

ReplaceTextWithPlaceholders(text, placeholder_to_value) ==
    IF Len(text) = 0 \/ Len(placeholder_to_value) = 0 THEN text
    ELSE LET m == FirstTrue([i \in DOMAIN placeholder_to_value |->
                                ContainsAny(StrLower(placeholder_to_value[i].name),
                                            SelectorKeywords)])
         IN  IF m # 0 /\ FindChar(text, "\"", 1) # 0
             THEN SubFirstQuoted(text, placeholder_to_value[m].str)
             ELSE text

\* an output that is None when nothing is left in the dict
StepOutputDictNoneIfEmpty(step, placeholder_to_value) ==
    IF step.output.k = "obj"
       /\ DOMAIN DictPop(ModelDumpExcludeNone(step.output.f), kFinalUrl) # {}
    THEN Obj(ReplaceValuesWithPlaceholders(
                DictPop(ModelDumpExcludeNone(step.output.f), kFinalUrl),
                placeholder_to_value))
    ELSE Null

\* the output dict of _process_step: None, or the dumped output without final_url, templated
StepOutputDict(step, placeholder_to_value) ==
    IF step.output.k = "obj"
    THEN Obj(ReplaceValuesWithPlaceholders(
                DictPop(ModelDumpExcludeNone(step.output.f), kFinalUrl),
                placeholder_to_value))
    ELSE Null

StepElementText(step, placeholder_to_value) ==
    IF Truthy(step.elementText) /\ Len(placeholder_to_value) > 0
    THEN Str(ReplaceElementTextWithPlaceholder(step.elementText.s, placeholder_to_value))
    ELSE step.elementText

StepAttributesDict(step, placeholder_to_value) ==
    IF step.attributes.k = "obj"
    THEN Obj(ReplaceValuesWithPlaceholders(ModelDumpByAlias(step.attributes.f),
                                           placeholder_to_value))
    ELSE Null

SelectorInfo(sel, placeholder_to_value) ==
    [type |-> sel.type,
     value |-> IF Len(placeholder_to_value) > 0
               THEN ReplaceTextWithPlaceholders(sel.value, placeholder_to_value)
               ELSE sel.value,
     priority |-> SelectorPriority(sel)]

\* a conversion that orders its entries by ascending priority
StepSelectorsSorted(step, placeholder_to_value) ==
    IF step.selector.k = "list" /\ Len(step.selector.l) > 0
    THEN LET infos == [i \in 1..Len(step.selector.l) |->
                          SelectorInfo(step.selector.l[i], placeholder_to_value)]
             before(j, i) == \/ infos[j].priority < infos[i].priority
                             \/ infos[j].priority = infos[i].priority /\ j < i
         IN  List([r \in 1..Len(infos) |->
                      infos[CHOOSE i \in DOMAIN infos :
                          Cardinality({j \in DOMAIN infos : before(j, i)}) = r - 1]])
    ELSE Null

\* a non-empty selector list is converted entry by entry; None and [] give None
StepSelectors(step, placeholder_to_value) ==
    IF step.selector.k = "list" /\ Len(step.selector.l) > 0
    THEN List([i \in 1..Len(step.selector.l) |->
                  SelectorInfo(step.selector.l[i], placeholder_to_value)])
    ELSE Null

\* handling one selector raises: re.error from re.sub, or ValueError from int()
SelectorRaises(sel, placeholder_to_value) ==
    \/ ReplaceTextRaises(sel.value, placeholder_to_value)
    \/ SelectorPriorityRaises(sel)

\* _process_step raises iff handling one of the selectors does
ProcessStepRaises(step) ==
    /\ step.selector.k = "list"
    /\ \E i \in 1..Len(step.selector.l) :
          SelectorRaises(step.selector.l[i],
              MapPlaceholdersToValues(step, ExtractPlaceholdersFromText(step.description)))

\* the exception of the first selector that raises; re.sub runs before int()
ProcessStepException(step) ==
    LET placeholder_to_value ==
            MapPlaceholdersToValues(step, ExtractPlaceholdersFromText(step.description))
        first == FirstTrue([i \in 1..Len(step.selector.l) |->
                               SelectorRaises(step.selector.l[i], placeholder_to_value)])
    IN  IF ReplaceTextRaises(step.selector.l[first].value, placeholder_to_value)
        THEN "re.error"
        ELSE "ValueError: invalid literal for int()"

\* a templating that takes the tokens of the scenario name as well
ProcessStepWithScenarioTokens(step, step_id) ==
    LET placeholder_to_value ==
            MapPlaceholdersToValues(step,
                ExtractPlaceholdersFromText(test_execution.scenarioName)
                \o ExtractPlaceholdersFromText(step.description))
    IN  [id |-> step_id,
         description |-> step.description,
         timestamp |-> step.timestamp,
         output |-> StepOutputDict(step, placeholder_to_value),
         tabId |-> step.tabId,
         type |-> step.type,
         force_new_tab |-> step.force_new_tab,
         elementText |-> StepElementText(step, placeholder_to_value),
         elementTag |-> step.elementTag,
         attributes |-> StepAttributesDict(step, placeholder_to_value),
         selector |-> StepSelectors(step, placeholder_to_value)]

\* the CategorizedStep _process_step returns when it does not raise
ProcessStep(step, step_id) ==
    LET placeholder_to_value ==
            MapPlaceholdersToValues(step, ExtractPlaceholdersFromText(step.description))
    IN  [id |-> step_id,
         description |-> step.description,
         timestamp |-> step.timestamp,
         output |-> StepOutputDict(step, placeholder_to_value),
         tabId |-> step.tabId,
         type |-> step.type,
         force_new_tab |-> step.force_new_tab,
         elementText |-> StepElementText(step, placeholder_to_value),
         elementTag |-> step.elementTag,
         attributes |-> StepAttributesDict(step, placeholder_to_value),
         selector |-> StepSelectors(step, placeholder_to_value)]

-----------------------------------------------------------------------------
(* Value resolver *)

nUrl     == kUrl
nLink    == kwLink
nWebsite == <<"w","e","b","s","i","t","e">>
nPhone   == <<"p","h","o","n","e">>
nProduct == <<"p","r","o","d","u","c","t">>
nModel   == <<"m","o","d","e","l">>
nItem    == <<"i","t","e","m">>
nButton  == kwButton
nText    == kwText

UrlNames     == {nUrl, nLink, nWebsite}
ProductNames == {nPhone, nProduct, nModel, nItem}
TextNames    == {nButton, nLink, nText}

BrandKeywords == {<<"i","p","h","o","n","e">>,
                  <<"s","a","m","s","u","n","g">>,
                  <<"p","i","x","e","l">>}

\* step.output and step.output.url
HasUrl(step) == step.output.k = "obj" /\ Truthy(step.output.f[kUrl])

\* step.elementText and any(keyword in step.elementText.lower() ...)
HasBrandText(step) ==
    Truthy(step.elementText) /\ ContainsAny(StrLower(step.elementText.s), BrandKeywords)

\* step.elementText
HasText(step) == Truthy(step.elementText)

ExamplePrefix == <<"e","x","a","m","p","l","e","_">>

\* a fallback built from the lower-cased name
FallbackExampleLower(placeholder_name) ==
    Str(ExamplePrefix \o StrLower(placeholder_name))

\* a fallback that is a number
FallbackExampleNumber(placeholder_name) == Int_(0)

FallbackExample(placeholder_name) == Str(ExamplePrefix \o placeholder_name)

\* a loop that keeps the last qualifying step instead of returning at the first
LastUrlStep(steps) ==
    IF \E i \in DOMAIN steps : HasUrl(steps[i])
    THEN CHOOSE i \in DOMAIN steps :
            HasUrl(steps[i]) /\ \A j \in (i + 1)..Len(steps) : ~HasUrl(steps[j])
    ELSE 0

\* "for step in steps: if step.output and step.output.url: return ..."
FirstUrlStep(steps) == FirstTrue([i \in DOMAIN steps |-> HasUrl(steps[i])])

FirstBrandTextStep(steps) ==
    FirstTrue([i \in DOMAIN steps |-> HasBrandText(steps[i])])

FirstTextStep(steps) == FirstTrue([i \in DOMAIN steps |-> HasText(steps[i])])

\* an if / elif chain: only the first rule whose name set holds the name is tried
FindExampleValueElif(placeholder_name, te) ==
    LET placeholder_lower == StrLower(placeholder_name)
        u == FirstUrlStep(te.steps)
        b == FirstBrandTextStep(te.steps)
        t == FirstTextStep(te.steps)
    IN  IF placeholder_lower \in UrlNames
        THEN (IF u # 0 THEN te.steps[u].output.f[kUrl]
              ELSE FallbackExample(placeholder_name))
        ELSE IF placeholder_lower \in ProductNames
        THEN (IF b # 0 THEN te.steps[b].elementText
              ELSE FallbackExample(placeholder_name))
        ELSE IF placeholder_lower \in TextNames /\ t # 0 THEN te.steps[t].elementText
        ELSE FallbackExample(placeholder_name)

\* three independent ifs, each returning at the first qualifying step, then the default
FindExampleValue(placeholder_name, te) ==
    LET placeholder_lower == StrLower(placeholder_name)
        u == FirstUrlStep(te.steps)
        b == FirstBrandTextStep(te.steps)
        t == FirstTextStep(te.steps)
    IN  IF placeholder_lower \in UrlNames /\ u # 0 THEN te.steps[u].output.f[kUrl]
        ELSE IF placeholder_lower \in ProductNames /\ b # 0 THEN te.steps[b].elementText
        ELSE IF placeholder_lower \in TextNames /\ t # 0 THEN te.steps[t].elementText
        ELSE FallbackExample(placeholder_name)

\* isinstance(v, bool) is tested before isinstance(v, int)
\* isinstance(v, bool), isinstance(v, int), isinstance(v, float): bool is a
\* subclass of int, so True and False are instances of int as well
IsInstanceBool(v) == v.k = "bool"
IsInstanceInt(v) == v.k \in {"int", "bool"}
IsInstanceFloat(v) == v.k = "float"

\* an inference that tests the numeric types first
InferTypeNumericFirst(v) ==
    IF IsInstanceInt(v) THEN "number"
    ELSE IF IsInstanceFloat(v) THEN "number"
    ELSE IF IsInstanceBool(v) THEN "boolean"
    ELSE "string"

InferType(v) ==
    IF IsInstanceBool(v) THEN "boolean"
    ELSE IF IsInstanceInt(v) THEN "number"
    ELSE IF IsInstanceFloat(v) THEN "number"
    ELSE "string"

-----------------------------------------------------------------------------
(* Input schema *)
\* a search that leaves the scenario name out
TextsToSearchWithoutScenario(te) ==
    <<te.featureName>> \o [i \in 1..Len(te.steps) |-> te.steps[i].description]

\* featureName, scenarioName, then every step description
TextsToSearch(te) ==
    <<te.featureName, te.scenarioName>> \o
    [i \in 1..Len(te.steps) |-> te.steps[i].description]

\* the matches of every non-empty text, concatenated in search order
RECURSIVE AllMatches(_)
AllMatches(texts) ==
    IF Len(texts) = 0 THEN <<>>
    ELSE (IF Len(Head(texts)) > 0 THEN FindAll(Head(texts), 1) ELSE <<>>)
         \o AllMatches(Tail(texts))

\* a dict keyed by the lower-cased name
RECURSIVE FirstSeenIgnoreCase(_, _)
FirstSeenIgnoreCase(matches, acc) ==
    IF Len(matches) = 0 THEN acc
    ELSE IF \E i \in DOMAIN acc : StrLower(acc[i]) = StrLower(Head(matches))
         THEN FirstSeenIgnoreCase(Tail(matches), acc)
         ELSE FirstSeenIgnoreCase(Tail(matches), Append(acc, Head(matches)))

\* "if match not in placeholders": the keys of the dict in insertion order
RECURSIVE FirstSeen(_, _)
FirstSeen(matches, acc) ==
    IF Len(matches) = 0 THEN acc
    ELSE IF \E i \in DOMAIN acc : acc[i] = Head(matches)
         THEN FirstSeen(Tail(matches), acc)
         ELSE FirstSeen(Tail(matches), Append(acc, Head(matches)))

ParameterFor == <<"P","a","r","a","m","e","t","e","r"," ","f","o","r"," ">>

InputSchemaField(placeholder_name, te) ==
    LET example == FindExampleValue(placeholder_name, te)
    IN  [name |-> placeholder_name,
         type |-> InferType(example),
         required |-> TRUE,
         example |-> example,
         description |-> ParameterFor \o placeholder_name]

ExtractInputSchema(te) ==
    LET names == FirstSeen(AllMatches(TextsToSearch(te)), <<>>)
    IN  [i \in 1..Len(names) |-> InputSchemaField(names[i], te)]

-----------------------------------------------------------------------------
(* The run of main(): create the converter, load, template every step,     *)
(* obtain the summary, build the schema and the workflow, save             *)

\* one attempt more than the default of max_retries
FourRetries == 3 + 1

\* _call_api(self, prompt, max_retries: int = 3)
MaxRetries == 3

\* enumerate's default start
ZeroBasedStart == 1 - 1

\* enumerate(test_execution.steps, start=1)
EnumerateStart == 1

SummaryText == Str(<<"s","u","m","m","a","r","y">>)

NumSteps == Len(test_execution.steps)

\* main() line 32: LLMClient.__init__ raises ValueError without an API key
CreateConverter ==
    /\ pc = "start"
    /\ IF api_key
       THEN pc' = "load" /\ UNCHANGED <<raised, exit_code>>
       ELSE pc' = "error" /\ raised' = "ValueError: OpenAI API key not provided"
            /\ exit_code' = 1
    /\ UNCHANGED <<example_value, param_type>>
    /\ UNCHANGED <<api_key, input_file, test_execution, step_idx, placeholders,
                   categorized_steps, attempt, api_calls, summary_calls, sleeps,
                   summary, workflow, output_file>>

\* parser.load() returns the validated TestExecution; convert() enters its loop,
\* or calls generate_workflow_summary at once when there is no step
LoadOk ==
    /\ pc = "load"
    /\ input_file.status = "ok"
    /\ test_execution' = input_file.data
    /\ step_idx' = EnumerateStart
    /\ IF Len(input_file.data.steps) = 0
       THEN pc' = "llm" /\ summary_calls' = summary_calls + 1
       ELSE pc' = "steps" /\ UNCHANGED summary_calls
    /\ UNCHANGED <<example_value, param_type>>
    /\ UNCHANGED <<api_key, input_file, placeholders, categorized_steps, attempt,
                   api_calls, sleeps, summary, workflow, output_file, raised,
                   exit_code>>

\* parser.load() raises; main() reports the error and exits with status 1
LoadFails ==
    /\ pc = "load"
    /\ input_file.status # "ok"
    /\ raised' = CASE input_file.status = "missing" -> "FileNotFoundError"
                   [] input_file.status = "badjson" -> "ValueError: Invalid JSON"
                   [] OTHER -> "ValueError: Invalid test execution schema"
    /\ pc' = "error"
    /\ exit_code' = 1
    /\ UNCHANGED <<example_value, param_type>>
    /\ UNCHANGED <<api_key, input_file, test_execution, step_idx, placeholders,
                   categorized_steps, attempt, api_calls, summary_calls, sleeps,
                   summary, workflow, output_file>>

\* an iteration that pops final_url from the step's own output
ProcessNextStepInPlace ==
    /\ pc = "steps"
    /\ LET pos  == step_idx - EnumerateStart + 1
           step == test_execution.steps[pos]
       IN  /\ placeholders' = ExtractPlaceholdersFromText(step.description)
           /\ IF ProcessStepRaises(step)
              THEN /\ pc' = "error"
                   /\ raised' = ProcessStepException(step)
                   /\ exit_code' = 1
                   /\ UNCHANGED <<categorized_steps, step_idx, summary_calls>>
              ELSE /\ categorized_steps' =
                          Append(categorized_steps, ProcessStep(step, step_idx))
                   /\ step_idx' = step_idx + 1
                   /\ IF pos = NumSteps
                      THEN pc' = "llm" /\ summary_calls' = summary_calls + 1
                      ELSE pc' = "steps" /\ UNCHANGED summary_calls
                   /\ UNCHANGED <<raised, exit_code>>
    /\ UNCHANGED <<example_value, param_type>>
    /\ test_execution' =
          LET pos == step_idx - EnumerateStart + 1
          IN  IF test_execution.steps[pos].output.k = "obj"
              THEN [test_execution EXCEPT !.steps[pos].output.f[kFinalUrl] = Null]
              ELSE test_execution
    /\ UNCHANGED <<api_key, input_file, attempt, api_calls, sleeps, summary, workflow,
                   output_file>>

\* an iteration that asks the collaborator about every step
ProcessNextStepWithCollaborator ==
    /\ pc = "steps"
    /\ LET pos  == step_idx - EnumerateStart + 1
           step == test_execution.steps[pos]
       IN  /\ placeholders' = ExtractPlaceholdersFromText(step.description)
           /\ IF ProcessStepRaises(step)
              THEN /\ pc' = "error"
                   /\ raised' = ProcessStepException(step)
                   /\ exit_code' = 1
                   /\ UNCHANGED <<categorized_steps, step_idx, summary_calls>>
              ELSE /\ categorized_steps' =
                          Append(categorized_steps, ProcessStep(step, step_idx))
                   /\ step_idx' = step_idx + 1
                   /\ summary_calls' = summary_calls + 1
                   /\ pc' = IF pos = NumSteps THEN "llm" ELSE "steps"
                   /\ UNCHANGED <<raised, exit_code>>
    /\ UNCHANGED <<example_value, param_type>>
    /\ UNCHANGED <<api_key, input_file, test_execution, attempt, api_calls, sleeps,
                   summary, workflow, output_file>>

\* one iteration of convert()'s loop: _process_step and append, or the
\* exception of _process_step propagating to main()
ProcessNextStep ==
    /\ pc = "steps"
    /\ LET pos  == step_idx - EnumerateStart + 1
           step == test_execution.steps[pos]
       IN  /\ placeholders' = ExtractPlaceholdersFromText(step.description)
           /\ IF ProcessStepRaises(step)
              THEN /\ pc' = "error"
                   /\ raised' = ProcessStepException(step)
                   /\ exit_code' = 1
                   /\ UNCHANGED <<categorized_steps, step_idx, summary_calls>>
              ELSE /\ categorized_steps' =
                          Append(categorized_steps, ProcessStep(step, step_idx))
                   /\ step_idx' = step_idx + 1
                   /\ IF pos = NumSteps
                      THEN pc' = "llm" /\ summary_calls' = summary_calls + 1
                      ELSE pc' = "steps" /\ UNCHANGED summary_calls
                   /\ UNCHANGED <<raised, exit_code>>
    /\ UNCHANGED <<example_value, param_type>>
    /\ UNCHANGED <<api_key, input_file, test_execution, attempt, api_calls, sleeps,
                   summary, workflow, output_file>>

\* one attempt of _call_api returns the response text
ApiAttemptSucceeds ==
    /\ pc = "llm"
    /\ api_calls' = api_calls + 1
    /\ summary' = SummaryText
    /\ pc' = "schema"
    /\ UNCHANGED <<example_value, param_type>>
    /\ UNCHANGED <<api_key, input_file, test_execution, step_idx, placeholders,
                   categorized_steps, attempt, summary_calls, sleeps, workflow,
                   output_file, raised, exit_code>>

\* one attempt of _call_api gets a response whose message has no content:
\* None.strip() raises AttributeError, which is no OpenAIError and is not
\* retried; main() reports it as an unexpected error and exits with status 1
ApiResponseWithoutContent ==
    /\ pc = "llm"
    /\ api_calls' = api_calls + 1
    /\ pc' = "error"
    /\ raised' = "AttributeError"
    /\ exit_code' = 1
    /\ UNCHANGED <<example_value, param_type>>
    /\ UNCHANGED <<api_key, input_file, test_execution, step_idx, placeholders,
                   categorized_steps, attempt, summary_calls, sleeps, summary,
                   workflow, output_file>>

\* an error handler that logs the last failure and lets convert() go on
\* with an empty summary
ApiAttemptFailsAndContinues ==
    /\ pc = "llm"
    /\ api_calls' = api_calls + 1
    /\ IF attempt < MaxRetries - 1
       THEN /\ sleeps' = Append(sleeps, 2 ^ attempt)
            /\ attempt' = attempt + 1
            /\ UNCHANGED <<pc, raised, exit_code, summary>>
       ELSE /\ pc' = "schema"
            /\ raised' = "OpenAIError"
            /\ summary' = Str(<<>>)
            /\ UNCHANGED <<sleeps, attempt, exit_code>>
    /\ UNCHANGED <<example_value, param_type>>
    /\ UNCHANGED <<api_key, input_file, test_execution, step_idx, placeholders,
                   categorized_steps, summary_calls, workflow, output_file>>

\* one attempt of _call_api raises OpenAIError: sleep 2^attempt and retry, or
\* re-raise on the last attempt
ApiAttemptFails ==
    /\ pc = "llm"
    /\ api_calls' = api_calls + 1
    /\ IF attempt < MaxRetries - 1
       THEN /\ sleeps' = Append(sleeps, 2 ^ attempt)
            /\ attempt' = attempt + 1
            /\ UNCHANGED <<pc, raised, exit_code>>
       ELSE /\ pc' = "error"
            /\ raised' = "OpenAIError"
            /\ exit_code' = 1
            /\ UNCHANGED <<sleeps, attempt>>
    /\ UNCHANGED <<example_value, param_type>>
    /\ UNCHANGED <<api_key, input_file, test_execution, step_idx, placeholders,
                   categorized_steps, summary_calls, summary, workflow, output_file>>

\* convert() lines 86-108: the input schema, the metadata and the Workflow
AssembleWorkflow ==
    /\ pc = "schema"
    /\ workflow' =
          [metadata |-> [featureName |-> test_execution.featureName,
                         scenarioName |-> test_execution.scenarioName,
                         source |-> "test_execution.json",
                         created_at |-> "now",
                         summary |-> summary,
                         input_schema |-> ExtractInputSchema(test_execution)],
           steps |-> categorized_steps]
    /\ pc' = "save"
    /\ UNCHANGED <<example_value, param_type>>
    /\ UNCHANGED <<api_key, input_file, test_execution, step_idx, placeholders,
                   categorized_steps, attempt, api_calls, summary_calls, sleeps,
                   summary, output_file, raised, exit_code>>

\* save_workflow writes the whole document; main() returns
SaveWorkflow ==
    /\ pc = "save"
    /\ output_file' = workflow
    /\ pc' = "done"
    /\ exit_code' = 0
    /\ UNCHANGED <<example_value, param_type>>
    /\ UNCHANGED <<api_key, input_file, test_execution, step_idx, placeholders,
                   categorized_steps, attempt, api_calls, summary_calls, sleeps,
                   summary, workflow, raised>>

Next ==
    \/ CreateConverter
    \/ LoadOk
    \/ LoadFails
    \/ ProcessNextStep
    \/ ApiAttemptSucceeds
    \/ ApiAttemptFails
    \/ ApiResponseWithoutContent
    \/ AssembleWorkflow
    \/ SaveWorkflow

-----------------------------------------------------------------------------
(* Inputs: the input files the runs are checked on *)

MaxTextLen == 6        \* longest description of the scanner runs
MaxSteps == 3          \* longest trace of the assembly runs
MaxResolveSteps == 2   \* longest trace of the resolver runs

\* "go", then " <name>" for every name
RECURSIVE Desc(_)
Desc(names) ==
    IF Len(names) = 0 THEN <<"g","o">>
    ELSE Desc(SubSeq(names, 1, Len(names) - 1))
         \o <<" ">> \o PlaceholderStr(names[Len(names)])

MkOutput(url, final_url, title, status_code, ok) ==
    Obj((kUrl :> url) @@ (kFinalUrl :> final_url) @@ (kTitle :> title)
        @@ (kStatusCode :> status_code) @@ (kOk :> ok))

MkAttributes(class, href, tag) ==
    Obj((kClass :> class) @@ (kHref :> href) @@ (kTag :> tag))

MkSelector(type, value, priority) ==
    [type |-> type, value |-> value, priority |-> priority]

MkStep(description, type, timestamp, output, elementText, attributes, selector) ==
    [description |-> description, output |-> output, timestamp |-> timestamp,
     tabId |-> Null, type |-> type, force_new_tab |-> Null,
     elementText |-> elementText, elementTag |-> Null,
     attributes |-> attributes, selector |-> selector]

MkTrace(featureName, scenarioName, steps) ==
    [featureName |-> featureName, scenarioName |-> scenarioName, steps |-> steps]

\* a missing file, a file that is no JSON, a JSON document that fails
\* validation, and one valid document per trace
InputFiles(traces) ==
    {[status |-> st, data |-> Null] : st \in {"missing", "badjson", "badschema"}}
    \cup {[status |-> "ok", data |-> d] : d \in traces}

InitWith(traces) ==
    /\ pc = "start"
    /\ api_key \in BOOLEAN
    /\ input_file \in InputFiles(traces)
    /\ test_execution = Null
    /\ step_idx = 0
    /\ placeholders = <<>>
    /\ categorized_steps = <<>>
    /\ attempt = 0
    /\ api_calls = 0
    /\ summary_calls = 0
    /\ sleeps = <<>>
    /\ summary = Null
    /\ workflow = Null
    /\ output_file = Null
    /\ raised = "none"
    /\ exit_code = -1
    /\ example_value = Null
    /\ param_type = Null

SeqsUpTo(S, n) == UNION {[1..m -> S] : m \in 0..n}

tF == <<"F">>
tS == <<"S">>
tX == <<"x">>
tY == <<"y">>
tURL == <<"U","R","L">>
tU_rl == <<"u","_","r","l">>
tTitleCap == <<"T","i","t","l","e">>
tButtonText == <<"b","u","t","t","o","n","_","t","e","x","t">>
tLinkCap == <<"L","i","n","k">>
tWidget == <<"w","i","d","g","e","t">>
tWidgetCap == <<"W","i","d","g","e","t">>
tTextBackref == <<"t","e","x","t","\\","1">>
tTextNewline == <<"t","e","x","t","\\","n">>

vH1 == Str(<<"h","1">>)
vH2 == Str(<<"h","2">>)
vEmpty == Str(<<>>)
vBuy == Str(<<"B","u","y">>)
vIPhone == Str(<<"i","P","h","o","n","e">>)
vPage == Str(<<"p">>)

(* Scanner runs: one step whose description is any text over ScanAlphabet *)
ScanAlphabet == {"<", ">", "x", "y"}

ScanTraces ==
    {MkTrace(tF, tS, <<MkStep(d, "click", 1, Null, Null, Null, Null)>>) :
        d \in SeqsUpTo(ScanAlphabet, MaxTextLen)}

InitScan == InitWith(ScanTraces)

SpecScan == InitScan /\ [][Next]_vars

(* Templating runs: one step out of every combination of the field values *)
TemplateTokenLists ==
    {<<>>, <<kUrl>>, <<tURL>>, <<tU_rl>>, <<kFinalUrl>>, <<tURL, kUrl>>,
     <<kStatusCode, kHref>>, <<tButtonText>>, <<tX, tTitleCap>>,
     <<tLinkCap>>, <<kwLabel>>, <<tX, tButtonText>>, <<kwLink, tButtonText>>,
     <<tTextBackref>>, <<tTextNewline>>}

TemplateOutputs ==
    {Null,
     MkOutput(Null, Null, Null, Null, Null),
     MkOutput(Null, vH2, Null, Null, Null),
     MkOutput(vH1, vH2, Null, Null, Null),
     MkOutput(vH1, vH2, vPage, Int_(200), Bool(TRUE))}

TemplateElementTexts == {Null, vEmpty, vBuy}

TemplateAttributes == {Null, MkAttributes(Null, vPage, Str(<<"a">>))}

selValue == <<"a","=","\"","b","\"">>
selTwoQuoted == <<"a","=","\"","b","\""," ","c","=","\"","d","\"">>
selOpenQuote == <<"a","=","\"","b">>
selEmptyQuotes == <<"a","=","\"","\"">>
pOne == <<"1">>
pTwo == <<"2">>
pBlank7 == <<" ","7"," ">>
pHigh == <<"h","i","g","h">>

TemplateSelectors ==
    {Null,
     List(<<>>),
     List(<<MkSelector("css", selValue, pOne)>>),
     List(<<MkSelector("xpath", selValue, pTwo), MkSelector("css", tX, <<>>),
            MkSelector("text", selValue, pOne)>>),
     List(<<MkSelector("css", selTwoQuoted, pTwo), MkSelector("id", selOpenQuote, pOne),
            MkSelector("xpath", selEmptyQuotes, <<>>)>>),
     List(<<MkSelector("css", selValue, pBlank7)>>),
     List(<<MkSelector("css", selValue, pHigh)>>)}

TemplateTraces ==
    {MkTrace(tF, tS, <<MkStep(Desc(n), "click", 1, o, e, a, sl)>>) :
        n \in TemplateTokenLists, o \in TemplateOutputs, e \in TemplateElementTexts,
        a \in TemplateAttributes, sl \in TemplateSelectors}

InitTemplate == InitWith(TemplateTraces)

SpecTemplate == InitTemplate /\ [][Next]_vars

(* Assembly runs: traces of up to MaxSteps steps *)
AssembleSteps ==
    {MkStep(Desc(<<>>), "navigate", 1, MkOutput(vH1, vH2, Null, Null, Null),
            Null, Null, Null),
     MkStep(Desc(<<kUrl>>), "click", 2, Null, vBuy, Null, Null),
     MkStep(Desc(<<tURL, kUrl>>), "click", 3, Null, Null, Null,
            List(<<MkSelector("css", selValue, pOne)>>)),
     MkStep(Desc(<<tX, kUrl, tX>>), "select_option", 4, Null, Null, Null, Null)}

AssembleFeatureNames == {tF, Desc(<<tX>>)}

AssembleScenarioNames == {<<>>, Desc(<<kUrl, tY>>), Desc(<<tButtonText>>)}

\* the end-to-end scenario: one navigate step with a url and a final_url
sSearch == <<"S","e","a","r","c","h">>
sFindPhone == <<"F","i","n","d"," ","<","p","h","o","n","e",">">>
sNavigateToUrl == <<"N","a","v","i","g","a","t","e"," ","t","o"," ","<","u","r","l",">">>
vShopTest == Str(<<"h","t","t","p","s",":","/","/","s","h","o","p",".","t","e","s","t">>)
vShopTestX == Str(<<"h","t","t","p","s",":","/","/","s","h","o","p",".","t","e","s","t","/","x">>)

EndToEndTrace ==
    MkTrace(sSearch, sFindPhone,
            <<MkStep(sNavigateToUrl, "navigate", 1,
                     MkOutput(vShopTest, vShopTestX, Null, Null, Null),
                     Null, Null, Null)>>)

AssembleTraces ==
    {MkTrace(f, sc, st) :
        f \in AssembleFeatureNames, sc \in AssembleScenarioNames,
        st \in SeqsUpTo(AssembleSteps, MaxSteps)}
    \cup {EndToEndTrace}

Init == InitWith(AssembleTraces)

Spec == Init /\ [][Next]_vars

\* main() is one synchronous thread: every call it makes returns or raises,
\* so a run never stops while a step of it is left.  ProcessNextStep is possible
\* exactly at pc = "steps" and AssembleWorkflow exactly at pc = "schema"; their
\* weak fairness is written with that guard in place of ENABLED.
Fairness ==
    /\ WF_vars(CreateConverter)
    /\ WF_vars(LoadOk)
    /\ WF_vars(LoadFails)
    /\ WF_vars(ApiAttemptSucceeds \/ ApiAttemptFails \/ ApiResponseWithoutContent)
    /\ WF_vars(SaveWorkflow)
    /\ ([]<>(pc # "steps") \/ []<><<ProcessNextStep>>_vars)
    /\ ([]<>(pc # "schema") \/ []<><<AssembleWorkflow>>_vars)

SpecFair == Init /\ [][Next]_vars /\ Fairness

(* Type-inference runs: lines 372-381 of _extract_input_schema on one      *)
(* example value of any Python type                                        *)
MaxNumber == 10        \* largest magnitude of the numeric example values

InferValues ==
    {Bool(b) : b \in BOOLEAN}
    \cup {Int_(n) : n \in (-MaxNumber)..MaxNumber}
    \cup {Float([num |-> n, den |-> d]) : n \in (-MaxNumber)..MaxNumber, d \in {2, 100}}
    \cup {Str(s) : s \in SeqsUpTo({"a", "1"}, 2)}
    \cup {Str(<<"T","r","u","e">>), Str(<<"4","2">>), Str(<<"3",".","1","4">>), Str(<<"a","b","c">>)}
    \cup {Null, List(<<>>), List(<<Int_(1)>>), Obj(<<>>)}

InitInfer ==
    /\ pc = "infer"
    /\ example_value \in InferValues
    /\ param_type = "string"
    /\ api_key = TRUE
    /\ input_file = Null
    /\ test_execution = Null
    /\ step_idx = 0
    /\ placeholders = <<>>
    /\ categorized_steps = <<>>
    /\ attempt = 0
    /\ api_calls = 0
    /\ summary_calls = 0
    /\ sleeps = <<>>
    /\ summary = Null
    /\ workflow = Null
    /\ output_file = Null
    /\ raised = "none"
    /\ exit_code = -1

\* the isinstance chain that follows param_type = "string"
InferParamType ==
    /\ pc = "infer"
    /\ param_type' = InferType(example_value)
    /\ pc' = "inferred"
    /\ UNCHANGED <<example_value, api_key, input_file, test_execution, step_idx,
                   placeholders, categorized_steps, attempt, api_calls,
                   summary_calls, sleeps, summary, workflow, output_file, raised,
                   exit_code>>

SpecInfer == InitInfer /\ [][InferParamType]_vars

(* Resolver runs: one token in the feature name, step data of every kind *)
ResolveTokens ==
    {nUrl, tURL, nLink, tLinkCap, nWebsite, nModel, nItem, nText, nButton,
     tWidget, tWidgetCap}

ResolveSteps ==
    {MkStep(Desc(<<>>), "click", 1, o, Null, Null, Null) :
        o \in {Null, MkOutput(Null, vH2, Null, Null, Null),
               MkOutput(vEmpty, Null, Null, Null, Null),
               MkOutput(vH1, Null, Null, Null, Null),
               MkOutput(vH2, Null, Null, Null, Null)}}
    \cup {MkStep(Desc(<<>>), "click", 1, Null, e, Null, Null) :
        e \in {vEmpty, vBuy, vIPhone}}
    \cup {MkStep(Desc(<<>>), "click", 1, MkOutput(vH1, Null, Null, Null, Null),
                 vBuy, Null, Null)}

ResolveTraces ==
    {MkTrace(Desc(<<n>>), tS, st) :
        n \in ResolveTokens, st \in SeqsUpTo(ResolveSteps, MaxResolveSteps)}

InitResolve == InitWith(ResolveTraces)

SpecResolve == InitResolve /\ [][Next]_vars

-----------------------------------------------------------------------------
(* Properties *)

\* the input step behind the i-th templated step
InputStep(i) == test_execution.steps[i]

\* the last step handled by _process_step was templated (it did not raise)
LastStepTemplated ==
    /\ Len(categorized_steps) > 0
    /\ raised \notin {"ValueError: invalid literal for int()", "re.error"}

\* The occurrences of <name> in a text, stated on positions: a name ends at
\* every ">" that has a "<" at least two places before it and after the
\* previous ">", and starts right after the first such "<".
PrevGt(d, j) ==
    IF \E m \in 1..(j - 1) : d[m] = ">"
    THEN CHOOSE m \in 1..(j - 1) : d[m] = ">" /\ \A n \in (m + 1)..(j - 1) : d[n] # ">"
    ELSE 0

TokenEnds(d) ==
    {j \in 1..Len(d) : d[j] = ">" /\ \E i \in (PrevGt(d, j) + 1)..(j - 2) : d[i] = "<"}

TokenAt(d, j) ==
    LET i == CHOOSE i \in (PrevGt(d, j) + 1)..(j - 2) :
                d[i] = "<" /\ \A m \in (PrevGt(d, j) + 1)..(i - 1) : d[m] # "<"
    IN  SubSeq(d, i + 1, j - 1)

TokenNames(d) == {TokenAt(d, j) : j \in TokenEnds(d)}

NoDuplicates(sq) == \A i, j \in DOMAIN sq : sq[i] = sq[j] => i = j

\* C1 as stated: the scan of a description holds every name between "<" and
\* the next ">" exactly once, in order of first occurrence.
C1_ScanCollapsesDuplicates ==
    LastStepTemplated =>
        LET d == InputStep(Len(categorized_steps)).description IN
        /\ {placeholders[i] : i \in DOMAIN placeholders} = TokenNames(d)
        /\ NoDuplicates(placeholders)

\* C1 amended: the scan of a description holds one entry per occurrence of
\* <name>, in order of occurrence, duplicates included; a text without an
\* occurrence (the empty text among them) gives the empty sequence.
C1_ScanKeepsEveryOccurrence ==
    LastStepTemplated =>
        LET d == InputStep(Len(categorized_steps)).description
            E == TokenEnds(d)
        IN  /\ Len(placeholders) = Cardinality(E)
            /\ \A j \in E :
                  placeholders[Cardinality({e \in E : e <= j})] = TokenAt(d, j)

\* a description in which the same name occurs twice has been scanned
C1_Witness ==
    /\ LastStepTemplated
    /\ InputStep(1).description = <<"<","x",">","<","x",">">>
    /\ placeholders = <<tX, tX>>

\* C2: templating never raises because of a selector priority, and every
\* output priority is the integer the input string denotes, or 999 when the
\* string is empty or denotes no integer.
C2_PriorityNeverRaises ==
    /\ raised # "ValueError: invalid literal for int()"
    /\ \A i \in DOMAIN categorized_steps :
          categorized_steps[i].selector.k = "list" =>
              \A n \in DOMAIN categorized_steps[i].selector.l :
                  LET p == InputStep(i).selector.l[n].priority IN
                  categorized_steps[i].selector.l[n].priority =
                      IF IsIntLiteral(p) THEN IntValue(p) ELSE 999

\* C3: the templated output map of a step never has the key final_url.
C3_NoFinalUrl ==
    \A i \in DOMAIN categorized_steps :
        categorized_steps[i].output.k = "obj" =>
            kFinalUrl \notin DOMAIN categorized_steps[i].output.f

\* a step with a final_url and a token named final_url has been templated,
\* and another key of its output was replaced
C3_Witness ==
    /\ Len(categorized_steps) = 1
    /\ InputStep(1).output.k = "obj"
    /\ InputStep(1).output.f[kFinalUrl] = vH2
    /\ InputStep(1).output.f[kUrl] = vH1
    /\ kFinalUrl \in TokenNames(InputStep(1).description)
    /\ categorized_steps[1].output.k = "obj"

\* C4: the assembled workflow has one step per input step, in input order
\* (same description, type and timestamp), and the k-th has id k.
C4_SequentialIds ==
    workflow # Null =>
        /\ Len(workflow.steps) = Len(test_execution.steps)
        /\ \A n \in DOMAIN workflow.steps :
              /\ workflow.steps[n].id = n
              /\ workflow.steps[n].description = InputStep(n).description
              /\ workflow.steps[n].type = InputStep(n).type
              /\ workflow.steps[n].timestamp = InputStep(n).timestamp

\* a workflow of three steps, the first without a placeholder, is assembled
C4_Witness ==
    /\ workflow # Null
    /\ Len(workflow.steps) = 3
    /\ TokenEnds(InputStep(1).description) = {}
    /\ InputStep(2).description # InputStep(3).description


\* the tokens of the i-th input step's description, in order of occurrence
StepTokens(i) ==
    LET d == InputStep(i).description
        E == TokenEnds(d)
    IN  [n \in 1..Cardinality(E) |->
            TokenAt(d, CHOOSE j \in E : Cardinality({e \in E : e <= j}) = n)]

\* the value a key must have after templating, with Match(key, token) deciding
\* which tokens stand for the key: the placeholder string of the first such
\* token, or the original value when there is none
TemplatedValue(key, original, tokens, Match(_, _)) ==
    LET M == {n \in DOMAIN tokens : Match(key, tokens[n])}
    IN  IF M = {} THEN original
        ELSE Str(PlaceholderStr(tokens[CHOOSE n \in M : \A m \in M : n <= m]))

\* the templated map holds exactly the keys of the original one, each with
\* its TemplatedValue
TemplatedMap(templated, original, keys, tokens, Match(_, _)) ==
    /\ DOMAIN templated = keys
    /\ \A key \in keys :
          templated[key] = TemplatedValue(key, original[key], tokens, Match)

\* the maps of every templated step follow the matching rule Match
MapsTemplatedBy(Match(_, _)) ==
    \A i \in DOMAIN categorized_steps :
        LET in  == InputStep(i)
            out == categorized_steps[i]
        IN  /\ in.output.k = "obj" =>
                  /\ out.output.k = "obj"
                  /\ TemplatedMap(out.output.f, in.output.f,
                                  {key \in OutputFields \ {kFinalUrl} :
                                      in.output.f[key] # Null},
                                  StepTokens(i), Match)
            /\ in.attributes.k = "obj" =>
                  /\ out.attributes.k = "obj"
                  /\ TemplatedMap(out.attributes.f, in.attributes.f,
                                  AttributeFields, StepTokens(i), Match)

\* C5 as stated: a key k of the output or attributes map holds <t> iff some
\* token t of the description has lower(k) = t or lower(k) = t without its
\* underscores; every other key keeps its value; no key is added or removed.
C5_KeyEqualsTokenAsWritten ==
    MapsTemplatedBy(LAMBDA key, t :
        StrLower(key) = t \/ StrLower(key) = RemoveUnderscores(t))

\* C5 amended: a key k of the output or attributes map holds the placeholder
\* string of the first token t of the description with lower(k) = lower(t) or
\* lower(k) = lower(t) without its underscores; a key without such a token
\* keeps its value; no key is added or removed.
C5_KeyEqualsLoweredToken ==
    MapsTemplatedBy(LAMBDA key, t :
        StrLower(key) = StrLower(t) \/ StrLower(key) = RemoveUnderscores(StrLower(t)))

\* the key url took the placeholder of the token URL, title kept its value
C5_Witness ==
    /\ Len(categorized_steps) = 1
    /\ StepTokens(1) = <<tURL, kUrl>>
    /\ categorized_steps[1].output.k = "obj"
    /\ DOMAIN categorized_steps[1].output.f = OutputFields \ {kFinalUrl}
    /\ categorized_steps[1].output.f[kUrl] = Str(PlaceholderStr(tURL))
    /\ categorized_steps[1].output.f[kTitle] = vPage
    /\ categorized_steps[1].attributes.k = "obj"

\* the integer a priority string stands for: 999 for the empty string
PriorityAsWritten(p) == IF Len(p) = 0 THEN 999 ELSE IntValue(p)

\* the selector entries of a step, none for a missing or empty list
SelectorEntries(sel) == IF sel.k = "list" THEN sel.l ELSE <<>>

TokensOf(d) ==
    LET E == TokenEnds(d)
    IN  [n \in 1..Cardinality(E) |->
            TokenAt(d, CHOOSE j \in E : Cardinality({e \in E : e <= j}) = n)]

InputSchema == workflow.metadata.input_schema

Steps == test_execution.steps

NonNullUrl(step) == step.output.k = "obj" /\ step.output.f[kUrl] # Null

NonEmptyUrl(step) == NonNullUrl(step) /\ Len(step.output.f[kUrl].s) > 0

NonEmptyText(step) == step.elementText # Null /\ Len(step.elementText.s) > 0

BrandText(step) ==
    /\ NonEmptyText(step)
    /\ \E kw \in BrandKeywords : Contains(StrLower(step.elementText.s), kw)

ExampleOf(name) == Str(<<"e","x","a","m","p","l","e","_">> \o name)

\* value is Field(step) of the earliest step that satisfies Has
IsEarliest(value, Has(_), Field(_)) ==
    \E i \in DOMAIN Steps :
        /\ Has(Steps[i])
        /\ \A j \in 1..(i - 1) : ~Has(Steps[j])
        /\ value = Field(Steps[i])

UrlOf(step) == step.output.f[kUrl]

TextOf(step) == step.elementText

\* C7 as stated: a token named url, link or website (in any case) resolves to
\* the output.url of the earliest step whose output.url is not null.
C7_EarliestNonNullUrl ==
    workflow # Null =>
        \A n \in DOMAIN InputSchema :
            (/\ StrLower(InputSchema[n].name) \in UrlNames
             /\ \E i \in DOMAIN Steps : NonNullUrl(Steps[i]))
            => IsEarliest(InputSchema[n].example, NonNullUrl, UrlOf)

\* C7 amended: a token named url, link or website (in any case) resolves to
\* the output.url of the earliest step whose output.url is neither null nor
\* the empty string, whatever elementText the trace holds.
C7_EarliestNonEmptyUrl ==
    workflow # Null =>
        \A n \in DOMAIN InputSchema :
            (/\ StrLower(InputSchema[n].name) \in UrlNames
             /\ \E i \in DOMAIN Steps : NonEmptyUrl(Steps[i]))
            => IsEarliest(InputSchema[n].example, NonEmptyUrl, UrlOf)

\* "Link" took the url of the second step although the first step has an
\* elementText, and the first step's url is the empty string
C7_Witness ==
    /\ workflow # Null
    /\ Len(Steps) = 2
    /\ Steps[1].elementText = vBuy
    /\ Steps[2].output.k = "obj"
    /\ Steps[2].output.f[kUrl] = vH2
    /\ InputSchema[1].name = tLinkCap
    /\ InputSchema[1].example = vH2

\* C8 as stated: a token named url, link or website resolves from output.url
\* values only: when no step has a url its example is example_<name>, never
\* an elementText.
C8_UrlNamesNeverUseElementText ==
    workflow # Null =>
        \A n \in DOMAIN InputSchema :
            (/\ StrLower(InputSchema[n].name) \in UrlNames
             /\ \A i \in DOMAIN Steps : ~NonNullUrl(Steps[i]))
            => InputSchema[n].example = ExampleOf(InputSchema[n].name)

\* C8 amended: the rules are tried in order and a rule without a qualifying
\* step falls through to the next one.  When no step has a non-empty url, a
\* token named url or website resolves to example_<name>, and a token named
\* link, which is also in rule 3's set, resolves to the elementText of the
\* earliest step with a non-empty elementText, or to example_<name> when
\* there is none.
C8_UrlNamesFallThrough ==
    workflow # Null =>
        \A n \in DOMAIN InputSchema :
            (/\ StrLower(InputSchema[n].name) \in UrlNames
             /\ \A i \in DOMAIN Steps : ~NonEmptyUrl(Steps[i]))
            => IF /\ StrLower(InputSchema[n].name) \in TextNames
                  /\ \E i \in DOMAIN Steps : NonEmptyText(Steps[i])
               THEN IsEarliest(InputSchema[n].example, NonEmptyText, TextOf)
               ELSE InputSchema[n].example = ExampleOf(InputSchema[n].name)

\* "link" resolved to an elementText in a trace without a url
C8_Witness ==
    /\ workflow # Null
    /\ \A i \in DOMAIN Steps : ~NonNullUrl(Steps[i])
    /\ Len(Steps) = 2
    /\ Steps[1].elementText = vEmpty
    /\ InputSchema[1].name = nLink
    /\ InputSchema[1].example = vBuy

\* no rule whose name set holds the lower-cased name has a qualifying step
NoQualifyingData(name) ==
    /\ StrLower(name) \in UrlNames => \A i \in DOMAIN Steps : ~NonEmptyUrl(Steps[i])
    /\ StrLower(name) \in ProductNames => \A i \in DOMAIN Steps : ~BrandText(Steps[i])
    /\ StrLower(name) \in TextNames => \A i \in DOMAIN Steps : ~NonEmptyText(Steps[i])

\* C9: a token whose lower-cased name is in none of the three name sets, or
\* for which the trace holds no qualifying data, resolves to "example_"
\* followed by the name as written, and its schema type is "string".
C9_FallbackExample ==
    workflow # Null =>
        \A n \in DOMAIN InputSchema :
            NoQualifyingData(InputSchema[n].name) =>
                /\ InputSchema[n].example = ExampleOf(InputSchema[n].name)
                /\ InputSchema[n].type = "string"

\* "Widget" resolved to example_Widget in a trace that has a url and an
\* elementText
C9_Witness ==
    /\ workflow # Null
    /\ \E i \in DOMAIN Steps : NonEmptyUrl(Steps[i])
    /\ \E i \in DOMAIN Steps : BrandText(Steps[i])
    /\ InputSchema[1].name = tWidgetCap
    /\ InputSchema[1].example = ExampleOf(tWidgetCap)
    /\ InputSchema[1].type = "string"

RECURSIVE Concat(_)
Concat(seqs) == IF Len(seqs) = 0 THEN <<>> ELSE Head(seqs) \o Concat(Tail(seqs))

\* every token occurrence of the feature name, the scenario name and the
\* step descriptions, in that order
TraceTokens ==
    Concat(<<TokensOf(test_execution.featureName),
             TokensOf(test_execution.scenarioName)>>
           \o [i \in 1..Len(Steps) |-> TokensOf(Steps[i].description)])

FirstOccurrence(name) ==
    CHOOSE i \in DOMAIN TraceTokens :
        TraceTokens[i] = name /\ \A j \in 1..(i - 1) : TraceTokens[j] # name

\* C10: the input schema has exactly one field per distinct token name of
\* the feature name, the scenario name and the step descriptions, names
\* differing in case being distinct; the fields are in first-seen order and
\* every field is required.
C10_SchemaFirstSeen ==
    workflow # Null =>
        /\ {InputSchema[n].name : n \in DOMAIN InputSchema}
              = {TraceTokens[i] : i \in DOMAIN TraceTokens}
        /\ \A m, n \in DOMAIN InputSchema :
              InputSchema[m].name = InputSchema[n].name => m = n
        /\ \A m, n \in DOMAIN InputSchema :
              m < n => FirstOccurrence(InputSchema[m].name)
                          < FirstOccurrence(InputSchema[n].name)
        /\ \A n \in DOMAIN InputSchema : InputSchema[n].required = TRUE

\* tokens of the feature name, the scenario name and two steps, some seen
\* twice, URL and url both among them
C10_Witness ==
    /\ workflow # Null
    /\ Len(Steps) = 2
    /\ Len(TraceTokens) = 6
    /\ [n \in DOMAIN InputSchema |-> InputSchema[n].name] = <<tX, kUrl, tY, tURL>>


\* C11: the output file is written only after the whole workflow has been
\* assembled: a run whose input file is missing, malformed or invalid, or
\* whose text-generation call fails, never reaches save_workflow, leaves the
\* output file untouched and exits with a non-zero status.
C11_NoOutputOnFailure ==
    /\ input_file.status # "ok" =>
          pc \in {"start", "load", "error"} /\ output_file = Null
    /\ raised # "none" =>
          pc = "error" /\ output_file = Null /\ exit_code = 1
    /\ pc = "error" => raised # "none"
    /\ output_file # Null =>
          /\ pc = "done"
          /\ workflow # Null
          /\ output_file = workflow
          /\ Len(workflow.steps) = Len(test_execution.steps)
          /\ workflow.metadata.summary = summary

\* every step was templated, the text-generation call failed three times,
\* and the run has ended with status 1 and no output file
C11_Witness ==
    /\ pc = "error"
    /\ raised = "OpenAIError"
    /\ Len(categorized_steps) = 2
    /\ workflow = Null
    /\ output_file = Null
    /\ exit_code = 1

\* the calls of _call_api are bounded and backed off as the claim says
RetryDiscipline ==
    /\ api_calls <= 3
    /\ Len(sleeps) <= 2
    /\ \A n \in DOMAIN sleeps : sleeps[n] = 2 ^ (n - 1)
    /\ pc = "llm" => api_calls = Len(sleeps)
    /\ summary # Null => api_calls = Len(sleeps) + 1
    /\ raised = "AttributeError" => api_calls = Len(sleeps) + 1
    /\ raised = "OpenAIError" =>
          api_calls = 3 /\ sleeps = <<1, 2>> /\ workflow = Null /\ pc = "error"

\* C12: _call_api makes at most 3 attempts, returns at the first successful
\* one, sleeps 2^k seconds after the failed attempt k = 0, 1 and not after
\* the last, raises the API error when all 3 fail, which aborts the
\* conversion, and always terminates.
C12_BoundedRetry ==
    [](RetryDiscipline) /\ <>(pc \in {"done", "error"})

\* the second attempt succeeded after one sleep of 1 second, and the run
\* went on to save the workflow
C12_Witness ==
    /\ pc = "done"
    /\ api_calls = 2
    /\ sleeps = <<1>>
    /\ summary # Null

\* C13: for the end-to-end trace (feature "Search", scenario "Find <phone>",
\* one step "Navigate to <url>" with output url https://shop.test and
\* final_url https://shop.test/x) the input schema has an entry phone with
\* example "example_phone" and an entry url with example "https://shop.test"
\* and type "string", and step 1's templated output is exactly {"url": "<url>"}.
C13_EndToEnd ==
    (test_execution = EndToEndTrace /\ workflow # Null) =>
        /\ \E n \in DOMAIN InputSchema :
              /\ InputSchema[n].name = nPhone
              /\ InputSchema[n].example = Str(<<"e","x","a","m","p","l","e","_","p","h","o","n","e">>)
        /\ \E n \in DOMAIN InputSchema :
              /\ InputSchema[n].name = kUrl
              /\ InputSchema[n].example = Str(<<"h","t","t","p","s",":","/","/","s","h","o","p",".","t","e","s","t">>)
              /\ InputSchema[n].type = "string"
        /\ workflow.steps[1].output = Obj(kUrl :> Str(<<"<","u","r","l",">">>))

\* the end-to-end trace has been converted and saved
C13_Witness ==
    /\ test_execution = EndToEndTrace
    /\ pc = "done"
    /\ output_file = workflow
    /\ Len(workflow.metadata.input_schema) = 2

\* C14: type inference tests boolean before numeric: a boolean example maps
\* to "boolean" (never to "number"), an integer or a real maps to "number",
\* and every other value maps to "string".
C14_TypeInference ==
    pc = "inferred" =>
        /\ example_value.k = "bool" => param_type = "boolean"
        /\ example_value.k \in {"int", "float"} => param_type = "number"
        /\ example_value.k \notin {"bool", "int", "float"} => param_type = "string"

\* the type of True has been inferred
C14_Witness ==
    /\ pc = "inferred"
    /\ example_value = Bool(TRUE)
    /\ param_type = "boolean"

\* the first of the tokens whose name has one of the keywords in it, 0 if none
FirstWithKeyword(names, keywords) ==
    LET Q == {n \in DOMAIN names : ContainsAny(names[n], keywords)}
    IN  IF Q = {} THEN 0 ELSE CHOOSE n \in Q : \A m \in Q : n <= m

LoweredNames(tokens) == [n \in DOMAIN tokens |-> StrLower(tokens[n])]

\* C15 as stated: if some token of the description has a name containing one
\* of button, text, element, link or label, the step's whole elementText
\* becomes the placeholder string of the first such token; if no token
\* qualifies the elementText is unchanged.
C15_ElementTextByNameAsWritten ==
    \A i \in DOMAIN categorized_steps :
        LET tokens == StepTokens(i)
            q == FirstWithKeyword(tokens, {kwButton, kwText, kwElement, kwLink, kwLabel})
        IN  categorized_steps[i].elementText =
                IF q # 0 THEN Str(PlaceholderStr(tokens[q]))
                ELSE InputStep(i).elementText

\* C15 amended: if the step's elementText is a non-empty text and some token
\* of the description has a name that, lower-cased, contains one of button,
\* text, element, link or label, the whole elementText becomes the placeholder
\* string of the first such token as written; otherwise (no such token, or a
\* null or empty elementText) the elementText is unchanged.
C15_ElementTextByLoweredName ==
    \A i \in DOMAIN categorized_steps :
        LET tokens == StepTokens(i)
            q == FirstWithKeyword(LoweredNames(tokens),
                                  {kwButton, kwText, kwElement, kwLink, kwLabel})
            text == InputStep(i).elementText
        IN  categorized_steps[i].elementText =
                IF q # 0 /\ text # Null /\ text # Str(<<>>)
                THEN Str(PlaceholderStr(tokens[q]))
                ELSE text

\* "Buy" became <button_text>, the placeholder of the second token, and in
\* another run <label>
C15_Witness ==
    /\ Len(categorized_steps) = 1
    /\ InputStep(1).elementText = vBuy
    /\ \/ /\ StepTokens(1) = <<tX, tButtonText>>
          /\ categorized_steps[1].elementText = Str(PlaceholderStr(tButtonText))
       \/ /\ StepTokens(1) = <<kwLabel>>
          /\ categorized_steps[1].elementText = Str(PlaceholderStr(kwLabel))

\* position of the first double quote of a text at or after from, 0 if none
QuoteFrom(v, from) ==
    IF \E j \in from..Len(v) : v[j] = "\""
    THEN CHOOSE j \in from..Len(v) : v[j] = "\"" /\ \A m \in from..(j - 1) : v[m] # "\""
    ELSE 0

\* the value with the contents of its first quoted substring replaced by
\* text, or the value itself when it has no quoted substring
FirstQuotedReplaced(v, text) ==
    LET q1 == QuoteFrom(v, 1)
        q2 == IF q1 = 0 THEN 0 ELSE QuoteFrom(v, q1 + 1)
    IN  IF q2 = 0 THEN v
        ELSE SubSeq(v, 1, q1) \o text \o SubSeq(v, q2, Len(v))

\* C16: for each selector of a step, if some token name contains (in any
\* letter case) one of button, text, element or link, only the contents of the
\* first double-quoted substring of the value are replaced, by the placeholder
\* string of the first qualifying token, every other character unchanged; a
\* value without a quoted substring, and every value when no token qualifies,
\* is unchanged.  Templating a selector value never fails.
C16_SelectorFirstQuotedOnly ==
    /\ raised # "re.error"
    /\ \A i \in DOMAIN categorized_steps :
          categorized_steps[i].selector.k = "list" =>
              \A n \in DOMAIN categorized_steps[i].selector.l :
                  LET tokens == StepTokens(i)
                      q == FirstWithKeyword(LoweredNames(tokens),
                                            {kwButton, kwText, kwElement, kwLink})
                      v == InputStep(i).selector.l[n].value
                  IN  categorized_steps[i].selector.l[n].value =
                          IF q # 0 THEN FirstQuotedReplaced(v, PlaceholderStr(tokens[q]))
                          ELSE v

\* C17: templating does not re-sort selectors: the templated selector list of
\* a step has the length of the input list and its k-th entry has the type of
\* the k-th input selector, whatever the priorities; a step without selectors
\* (none, or an empty list) has no templated list.
C17_SelectorOrderKept ==
    \A i \in DOMAIN categorized_steps :
        LET in  == InputStep(i).selector
            out == categorized_steps[i].selector
        IN  IF in.k = "list" /\ Len(in.l) > 0
            THEN /\ out.k = "list"
                 /\ Len(out.l) = Len(in.l)
                 /\ \A k \in DOMAIN in.l : out.l[k].type = in.l[k].type
            ELSE out = Null

\* selectors with priorities 2, none and 1 were templated and kept their places
C17_Witness ==
    /\ Len(categorized_steps) = 1
    /\ categorized_steps[1].selector.k = "list"
    /\ Len(categorized_steps[1].selector.l) = 3
    /\ [k \in 1..3 |-> categorized_steps[1].selector.l[k].type] = <<"xpath", "css", "text">>
    /\ [k \in 1..3 |-> categorized_steps[1].selector.l[k].priority] = <<2, 999, 1>>

LoweredMatch(key, token) ==
    \/ StrLower(key) = StrLower(token)
    \/ StrLower(key) = RemoveUnderscores(StrLower(token))

\* The templated record of a step as a function of the step and its position
\* alone: every rule is applied with the tokens of the step's own description.
TemplatedAlone(step, position) ==
    LET tokens == TokensOf(step.description)
        qe == FirstWithKeyword(LoweredNames(tokens),
                               {kwButton, kwText, kwElement, kwLink, kwLabel})
        qs == FirstWithKeyword(LoweredNames(tokens),
                               {kwButton, kwText, kwElement, kwLink})
    IN  [id |-> position,
         description |-> step.description,
         timestamp |-> step.timestamp,
         tabId |-> step.tabId,
         type |-> step.type,
         force_new_tab |-> step.force_new_tab,
         elementTag |-> step.elementTag,
         output |->
            IF step.output.k = "obj"
            THEN Obj([key \in {f \in OutputFields \ {kFinalUrl} : step.output.f[f] # Null} |->
                         TemplatedValue(key, step.output.f[key], tokens, LoweredMatch)])
            ELSE Null,
         elementText |->
            IF qe # 0 /\ step.elementText # Null /\ step.elementText # Str(<<>>)
            THEN Str(PlaceholderStr(tokens[qe]))
            ELSE step.elementText,
         attributes |->
            IF step.attributes.k = "obj"
            THEN Obj([key \in AttributeFields |->
                         TemplatedValue(key, step.attributes.f[key], tokens, LoweredMatch)])
            ELSE Null,
         selector |->
            IF step.selector.k = "list" /\ Len(step.selector.l) > 0
            THEN List([n \in DOMAIN step.selector.l |->
                         [type |-> step.selector.l[n].type,
                          value |-> IF qs # 0
                                    THEN FirstQuotedReplaced(step.selector.l[n].value,
                                                             PlaceholderStr(tokens[qs]))
                                    ELSE step.selector.l[n].value,
                          priority |-> IF Len(step.selector.l[n].priority) = 0 THEN 999
                                       ELSE IntValue(step.selector.l[n].priority)]])
            ELSE Null]

\* C18: the templated record of a step depends only on that step's own fields
\* and its position: in every trace, whatever its feature name, scenario name
\* and other steps, the record at a position is the one the step gives on its
\* own there, so two traces with the same step at the same position agree on
\* it, and a token that occurs only in the scenario name or in another step's
\* description causes no replacement.
C18_StepTemplatedAlone ==
    \A i \in DOMAIN categorized_steps :
        categorized_steps[i] = TemplatedAlone(InputStep(i), i)

\* the scenario name has the tokens url and button_text of other texts: the
\* first step, without tokens, kept its url, and a later step with the
\* token url kept its elementText
C18_Witness ==
    /\ Len(categorized_steps) >= 2
    /\ \E n \in DOMAIN TokensOf(test_execution.scenarioName) :
          TokensOf(test_execution.scenarioName)[n] \in {kUrl, tButtonText}
    /\ StepTokens(1) = <<>>
    /\ categorized_steps[1].output.k = "obj"
    /\ categorized_steps[1].output.f[kUrl] = vH1
    /\ StepTokens(2) = <<kUrl>>
    /\ categorized_steps[2].elementText = vBuy

\* C19: conversion never mutates the parsed trace: from parsing on, the
\* feature name, the scenario name and every field of every input step keep
\* the values they had right after parsing (those of the input document);
\* the replacements exist only in the new workflow.
C19_TraceNeverMutated ==
    [][test_execution # Null =>
          test_execution' = test_execution /\ test_execution = input_file.data]_vars

\* the end-to-end trace has been converted: the workflow holds <url> and no
\* final_url, the trace still holds both urls
C19_Witness ==
    /\ pc = "done"
    /\ test_execution = EndToEndTrace
    /\ workflow.steps[1].output = Obj(kUrl :> Str(PlaceholderStr(kUrl)))
    /\ test_execution.steps[1].output.f[kUrl] = vShopTest
    /\ test_execution.steps[1].output.f[kFinalUrl] = vShopTestX

\* C20: every input-schema field produced by a conversion has type "string":
\* its example is a text (a step's output.url, a step's elementText or the
\* fallback literal), so no field is typed "number" or "boolean".
C20_SchemaTypesAreString ==
    workflow # Null =>
        \A n \in DOMAIN InputSchema :
            /\ InputSchema[n].example.k = "str"
            /\ InputSchema[n].type = "string"

\* a schema whose field took a step's output.url, and in other runs an
\* elementText or the fallback
C20_Witness ==
    /\ workflow # Null
    /\ Len(InputSchema) = 1
    /\ InputSchema[1].name = nUrl
    /\ InputSchema[1].example = vH1
    /\ InputSchema[1].type = "string"

\* what holds of the collaborator's calls in every state
CollaboratorCalledOnce ==
    /\ summary_calls \in {0, 1}
    /\ input_file.status # "ok" => summary_calls = 0 /\ api_calls = 0
    /\ api_calls > 0 => summary_calls = 1
    /\ summary_calls = 1 =>
          /\ test_execution # Null
          /\ Len(categorized_steps) = Len(test_execution.steps)
    /\ summary # Null => summary_calls = 1
    /\ workflow # Null => summary # Null /\ summary_calls = 1 /\ api_calls \in 1..3
    /\ pc = "done" => workflow # Null

\* C21: in every successful conversion the text-generation collaborator is
\* invoked exactly once (one generate_workflow_summary call of at most 3 API
\* attempts), after the input has been loaded and validated and all steps
\* have been templated, and before the input schema and the metadata are
\* built; when loading or validation fails it is never invoked.
C21_CollaboratorOnceInOrder ==
    /\ []CollaboratorCalledOnce
    /\ [][summary_calls' # summary_calls =>
             /\ summary_calls' = 1
             /\ workflow = Null /\ workflow' = Null
             /\ test_execution' # Null
             /\ Len(categorized_steps') = Len(test_execution'.steps)]_vars
    /\ [][workflow' # workflow => summary_calls = 1 /\ summary # Null]_vars

\* three steps were templated, the third API attempt gave the summary, and
\* the workflow was saved
C21_Witness ==
    /\ pc = "done"
    /\ Len(categorized_steps) = 3
    /\ summary_calls = 1
    /\ api_calls = 3
    /\ workflow.metadata.summary = summary

\* C22: a templated step has an output map iff the input step has an output
\* object, and the keys of the map are exactly the non-null fields of the
\* input output other than final_url; an output with only final_url, or with
\* only null fields, gives the empty map, not a missing output.
C22_OutputMapKeys ==
    \A i \in DOMAIN categorized_steps :
        LET in  == InputStep(i).output
            out == categorized_steps[i].output
        IN  /\ out # Null <=> in # Null
            /\ in # Null =>
                  /\ out.k = "obj"
                  /\ DOMAIN out.f =
                        {key \in OutputFields : in.f[key] # Null} \ {kFinalUrl}

\* an output that held only final_url became the empty map, under a
\* description with a token
C22_Witness ==
    /\ Len(categorized_steps) = 1
    /\ InputStep(1).output = MkOutput(Null, vH2, Null, Null, Null)
    /\ StepTokens(1) # <<>>
    /\ categorized_steps[1].output.k = "obj"
    /\ DOMAIN categorized_steps[1].output.f = {}

====
